---- MODULE Spec2Model ----
(***************************************************************************)
(* The ingestion pipeline of python-server: the CoAP uplink handler        *)
(* (DataResource.render_post), the WebSocket subscriber registry           *)
(* (ws_clients, ws_handler, ws_broadcast) and the Supabase persistence     *)
(* fan-out (store_uplink_to_supabase).                                     *)
(*                                                                         *)
(* Everything runs on one asyncio event loop.  A task runs without         *)
(* interruption from one suspension point (an await on I/O) to the next;   *)
(* the variable loop names the task that is running, or "idle".            *)
(***************************************************************************)
EXTENDS Integers, Sequences, FiniteSets, TLC

\* ------------------------------------------------------------------ bounds

\* Longest wifi scan list of an uplink.
MaxWifi == 1
\* Most inbound client messages read on one WebSocket connection.
MaxMsgs == 1
\* Largest count query parameter of a GET /test request.
MaxCount == 1

\* ------------------------------------------------------- program constants

HEARTBEAT_INTERVAL == 1100
LOCATION_MODE == 2

\* ---------------------------------------------------------------- values

\* Python's Optional: None is the empty tuple, a value v is <<v>>.
None == <<>>
Some(v) == <<v>>
IsNone(o) == o = <<>>
Val(o) == o[1]

\* Python truthiness of an optional int / str / list / dict.
TruthyInt(o) == ~IsNone(o) /\ Val(o) # 0
TruthyStr(o) == ~IsNone(o) /\ Val(o) # ""
TruthyList(o) == ~IsNone(o) /\ Len(Val(o)) > 0
TruthyDict(o) == ~IsNone(o) /\ DOMAIN Val(o) # {}

\* str() of a small enum number: never the empty string.
Str(n) == CASE n = 0 -> "0" [] n = 1 -> "1" [] n = 2 -> "2" [] OTHER -> "3"

Reqs == {"r1", "r2"}
Conns == {"w1", "w2"}
Devices == {"D1", "D2"}

\* ---------------------------------------------------------- wire messages

\* The sections an Uplink message can carry.  A section that is absent from
\* the wire is None; HasField tells the two apart whatever the field values.
ZeroConfig(d) ==
    [dev_id |-> d, heartbeat_interval |-> 0, iccid |-> "", hw_version |-> "",
     sw_version |-> "", location_mode |-> 0]
FullConfig(d) ==
    [dev_id |-> d, heartbeat_interval |-> 300, iccid |-> "X", hw_version |-> "v1",
     sw_version |-> "v2", location_mode |-> 2]
ZeroActivity == [sleep |-> 0, modem |-> 0, gnss |-> 0, wifi |-> 0, other |-> 0]
FullActivity == [sleep |-> 85, modem |-> 10, gnss |-> 3, wifi |-> 2, other |-> 0]
ZeroReboot == [reason |-> 0, file |-> "", line |-> 0]
FullReboot == [reason |-> 1, file |-> "main.c", line |-> 123]
AccessPoint == [mac |-> "aabbccddeeff", rssi |-> -45]

ConfigSections(devs) ==
    {None} \cup {Some(ZeroConfig(d)) : d \in devs} \cup {Some(FullConfig(d)) : d \in devs}
ActivitySections == {None, Some(ZeroActivity), Some(FullActivity)}
RebootSections == {None, Some(ZeroReboot), Some(FullReboot)}
\* modem_temperature on the wire: not sent, sent as 0, sent as 23.
WireTemperatures == {None, Some(0), Some(23)}
WifiLists == UNION {[1..n -> {AccessPoint}] : n \in 0..MaxWifi}
LocationSections == {None} \cup {Some([wifi |-> l]) : l \in WifiLists}

HeartbeatSections(devs) ==
    {None} \cup
    {Some([config |-> c, activity |-> a, reboot |-> b, modem_temperature |-> t]) :
        c \in ConfigSections(devs), a \in ActivitySections,
        b \in RebootSections, t \in WireTemperatures}

\* A request payload: bytes that do not parse (ok = FALSE), or an Uplink.
Malformed == [ok |-> FALSE, heartbeat |-> None, location |-> None, uplink_count |-> 0]
Uplinks(devs) ==
    {[ok |-> TRUE, heartbeat |-> h, location |-> l, uplink_count |-> 42] :
        h \in HeartbeatSections(devs), l \in LocationSections}
Payloads(devs) == {Malformed} \cup Uplinks(devs)

\* ------------------------------------------------- render_post: extraction

\* The locals of render_post after lines 270-306.  hb.modem_temperature is read
\* without HasField: a field that was not sent reads as the default 0.
ReadTemperature(hb) ==
    IF IsNone(hb.modem_temperature) THEN 0 ELSE Val(hb.modem_temperature)

ExtractValues(u) ==
    LET hasHb == ~IsNone(u.heartbeat)
        hb == Val(u.heartbeat)
        hasCfg == hasHb /\ ~IsNone(hb.config)
        cfg == Val(hb.config)
        hasAct == hasHb /\ ~IsNone(hb.activity)
        act == Val(hb.activity)
        hasRb == hasHb /\ ~IsNone(hb.reboot)
        rb == Val(hb.reboot)
    IN  [dev_id |-> IF hasCfg THEN Some(cfg.dev_id) ELSE None,
         heartbeat_interval |-> IF hasCfg THEN Some(cfg.heartbeat_interval) ELSE None,
         iccid |-> IF hasCfg THEN Some(cfg.iccid) ELSE None,
         hw_version |-> IF hasCfg THEN Some(cfg.hw_version) ELSE None,
         sw_version |-> IF hasCfg THEN Some(cfg.sw_version) ELSE None,
         application_mode |-> IF hasCfg THEN Some(Str(cfg.location_mode)) ELSE None,
         activity_sleep |-> IF hasAct THEN Some(act.sleep) ELSE None,
         activity_modem |-> IF hasAct THEN Some(act.modem) ELSE None,
         activity_gnss |-> IF hasAct THEN Some(act.gnss) ELSE None,
         activity_wifi |-> IF hasAct THEN Some(act.wifi) ELSE None,
         activity_other |-> IF hasAct THEN Some(act.other) ELSE None,
         reboot_file |-> IF hasRb THEN Some(rb.file) ELSE None,
         reboot_line |-> IF hasRb THEN Some(rb.line) ELSE None,
         reboot_reason |-> IF hasRb THEN Some(Str(rb.reason)) ELSE None,
         temperature |-> IF hasHb THEN Some(ReadTemperature(hb)) ELSE None,
         wifi_list |-> IF IsNone(u.location) THEN <<>> ELSE Val(u.location).wifi,
         uplink_count |-> u.uplink_count]

\* Variant of AnyConfig: application_mode, which str() makes non-empty
\* whenever the config section is present, is left out of the test.
AnyConfigValues(v) ==
    \/ TruthyInt(v.heartbeat_interval) \/ TruthyStr(v.iccid) \/ TruthyStr(v.hw_version)
    \/ TruthyStr(v.sw_version)

\* The conditions of lines 326, 342, 358, 372, 384 (and 406, 413, 418, 420).
AnyConfig(v) ==
    \/ TruthyInt(v.heartbeat_interval) \/ TruthyStr(v.iccid) \/ TruthyStr(v.hw_version)
    \/ TruthyStr(v.sw_version) \/ TruthyStr(v.application_mode)
AnyActivity(v) ==
    \/ TruthyInt(v.activity_sleep) \/ TruthyInt(v.activity_modem)
    \/ TruthyInt(v.activity_gnss) \/ TruthyInt(v.activity_wifi)
    \/ TruthyInt(v.activity_other)
AnyReboot(v) ==
    TruthyStr(v.reboot_reason) \/ TruthyStr(v.reboot_file) \/ TruthyInt(v.reboot_line)
HasTemperature(v) == ~IsNone(v.temperature)
HasWifi(v) == Len(v.wifi_list) > 0

\* Variant of EventTypes: the activity event is broadcast before the heartbeat
\* event.
EventTypesSwapped == <<"coap", "activity", "heartbeat", "reboot", "temperature", "location">>

\* The order of the ws_broadcast calls of render_post.
EventTypes == <<"coap", "heartbeat", "activity", "reboot", "temperature", "location">>
EventTypeSet == {EventTypes[k] : k \in 1..Len(EventTypes)}

\* Whether render_post makes its k-th ws_broadcast call (inside `if dev_id:`).
Emits(v, k) ==
    CASE k = 1 -> TRUE
      [] k = 2 -> AnyConfig(v)
      [] k = 3 -> AnyActivity(v)
      [] k = 4 -> AnyReboot(v)
      [] k = 5 -> HasTemperature(v)
      [] OTHER -> HasWifi(v)

\* The dict render_post passes to store_uplink_to_supabase (lines 397-421).
BuildData(v) ==
    [devid |-> v.dev_id,
     uplink_count |-> v.uplink_count,
     device_config |->
        IF AnyConfig(v)
        THEN Some([heartbeat_interval |-> v.heartbeat_interval, iccid |-> v.iccid,
                   hw_version |-> v.hw_version, sw_version |-> v.sw_version,
                   application_mode |-> v.application_mode])
        ELSE None,
     activity |->
        IF AnyActivity(v)
        THEN Some([sleep |-> v.activity_sleep, modem |-> v.activity_modem,
                   gnss |-> v.activity_gnss, wifi |-> v.activity_wifi,
                   other |-> v.activity_other])
        ELSE None,
     reboot |->
        IF AnyReboot(v)
        THEN Some([reason |-> v.reboot_reason, file |-> v.reboot_file,
                   line |-> v.reboot_line])
        ELSE None,
     temperature |-> v.temperature,
     wifi |-> IF HasWifi(v) THEN Some(v.wifi_list) ELSE None]

\* The Downlink message render_post answers with (lines 423-433) and the
\* server-error answer of its except branch (line 437).
Downlink ==
    [code |-> "CONTENT",
     config |-> [heartbeat_interval |-> HEARTBEAT_INTERVAL, location_mode |-> LOCATION_MODE]]
ServerError == [code |-> "INTERNAL_SERVER_ERROR"]
Ok200 == [code |-> "200"]
NoResponse == [code |-> "none"]

\* ------------------------------------------- store_uplink_to_supabase: plan

OpKinds == <<"device_config", "activity", "reboot", "temperature", "wifi">>

\* Variant of DependentNames: the temperature is tested for truth, not for None.
DependentNamesTruthy(data) ==
    (IF TruthyDict(data.activity) THEN <<"activity">> ELSE <<>>)
    \o (IF TruthyDict(data.reboot) THEN <<"reboot">> ELSE <<>>)
    \o (IF TruthyInt(data.temperature) THEN <<"temperature">> ELSE <<>>)
    \o (IF TruthyList(data.wifi) THEN <<"wifi">> ELSE <<>>)

\* task_names: the dependent operations of phase 2, in the order they are
\* appended (lines 150-177).
DependentNames(data) ==
    (IF TruthyDict(data.activity) THEN <<"activity">> ELSE <<>>)
    \o (IF TruthyDict(data.reboot) THEN <<"reboot">> ELSE <<>>)
    \o (IF ~IsNone(data.temperature) THEN <<"temperature">> ELSE <<>>)
    \o (IF TruthyList(data.wifi) THEN <<"wifi">> ELSE <<>>)

\* The guard of line 129, `if not devid`.
DevidIsNone(data) == IsNone(data.devid)
DevidMissing(data) == ~TruthyStr(data.devid)

\* Whether phase 1 runs (line 141).
HasDeviceConfig(data) == TruthyDict(data.device_config)

\* What a SupabaseClient method returns for the outcome of its POST: "True" for
\* status 200/201, "False" for any other status, and "False" for an exception,
\* which the method's own except clause catches.  "raise" would be an exception
\* leaving the method.
RawOutcomes == {"2xx", "non2xx", "exception"}
upsert_device_config_uncaught(raw) ==
    CASE raw = "2xx" -> "True" [] raw = "non2xx" -> "False" [] OTHER -> "raise"
upsert_device_config(raw) ==
    CASE raw = "2xx" -> "True" [] raw = "non2xx" -> "False" [] OTHER -> "False"
insert_activity(raw) ==
    CASE raw = "2xx" -> "True" [] raw = "non2xx" -> "False" [] OTHER -> "False"
insert_reboot(raw) ==
    CASE raw = "2xx" -> "True" [] raw = "non2xx" -> "False" [] OTHER -> "False"
insert_sensor_data(raw) ==
    CASE raw = "2xx" -> "True" [] raw = "non2xx" -> "False" [] OTHER -> "False"

\* The coroutine behind each task name (lines 155, 161, 168, 175).
DependentTask(name, raw) ==
    CASE name = "activity" -> insert_activity(raw)
      [] name = "reboot" -> insert_reboot(raw)
      [] OTHER -> insert_sensor_data(raw)

\* ------------------------------------------------------------------ state

VARIABLES
    loop,        \* the task running on the event loop, or "idle"
    ws_clients,  \* deviceId -> set of connections (a defaultdict: keys appear on use)
    ws,          \* per connection: the ws_handler task and its WebSocketResponse
    req,         \* per request: the handler task and its ws_broadcast call
    store        \* per request: its store_uplink_to_supabase call

vars == <<loop, ws_clients, ws, req, store>>

Idle == loop = "idle"

NoData ==
    [devid |-> None, uplink_count |-> 0, device_config |-> None, activity |-> None,
     reboot |-> None, temperature |-> None, wifi |-> None]
NoOutcomes == [n \in {OpKinds[i] : i \in 1..Len(OpKinds)} |-> "none"]
NoQuery == [deviceId |-> "", type |-> "", count |-> 0]

\* A request task.  kind is the handler that serves it: render_post (a CoAP
\* uplink), test_handler (GET /test), or main of test_supabase.py, which calls
\* store_uplink_to_supabase directly.
NewReq(kind, pc, payload, query) ==
    [kind |-> kind, pc |-> pc, payload |-> payload, query |-> query,
     k |-> 1, i |-> 0, emitted |-> <<>>,
     device_id |-> "", msg |-> "",
     snapshot |-> {}, visited |-> {}, to_drop |-> {}, attempted |-> {},
     send_to |-> "none", response |-> NoResponse]
NewStore(data) ==
    [data |-> data, issued |-> <<>>, outcome |-> NoOutcomes,
     total_operations |-> 0, success_count |-> 0, exit |-> "none"]
NewWs(pc, deviceId, authorized, budget) ==
    [pc |-> pc, deviceId |-> deviceId, authorized |-> authorized,
     closed |-> FALSE, inbox |-> <<>>, msgs |-> 0, budget |-> budget]

\* ------------------------------------------------------------ ws_broadcast

\* ws_broadcast returns to its caller: render_post goes on to its next
\* section, test_handler to the end of its loop body.
BroadcastReturns(r) ==
    req' = [req EXCEPT ![r].pc = IF req[r].kind = "render_post" THEN "decoded" ELSE "test_sent",
                       ![r].k = IF req[r].kind = "render_post" THEN @ + 1 ELSE @]

\* Variant of BroadcastBegin: the guard reads ws_clients[device_id] without the
\* membership test, which makes the defaultdict create the entry.
BroadcastBeginTouches(r) ==
    /\ req[r].pc = "ws_broadcast" /\ loop = r
    /\ LET d == req[r].device_id
       IN IF d = ""
          THEN BroadcastReturns(r) /\ UNCHANGED ws_clients
          ELSE IF d \notin DOMAIN ws_clients
          THEN BroadcastReturns(r) /\ ws_clients' = ws_clients @@ (d :> {})
          ELSE IF ws_clients[d] = {}
          THEN BroadcastReturns(r) /\ UNCHANGED ws_clients
          ELSE /\ req' = [req EXCEPT ![r].pc = "for_ws",
                                     ![r].snapshot = ws_clients[d],
                                     ![r].visited = {}, ![r].to_drop = {},
                                     ![r].attempted = {}]
               /\ UNCHANGED ws_clients
    /\ UNCHANGED <<loop, ws, store>>

\* Variant of BroadcastBegin: the snapshot is taken over the sets of every
\* device.
BroadcastBeginAll(r) ==
    /\ req[r].pc = "ws_broadcast" /\ loop = r
    /\ LET d == req[r].device_id
       IN IF d = "" \/ d \notin DOMAIN ws_clients \/ ws_clients[d] = {}
          THEN BroadcastReturns(r)
          ELSE req' = [req EXCEPT ![r].pc = "for_ws",
                                  ![r].snapshot = UNION {ws_clients[x] : x \in DOMAIN ws_clients},
                                  ![r].visited = {}, ![r].to_drop = {},
                                  ![r].attempted = {}]
    /\ UNCHANGED <<loop, ws_clients, ws, store>>

\* Lines 53-56: return at once when nobody listens, else take the snapshot
\* list(ws_clients[device_id]).
BroadcastBegin(r) ==
    /\ req[r].pc = "ws_broadcast" /\ loop = r
    /\ LET d == req[r].device_id
       IN IF d = "" \/ d \notin DOMAIN ws_clients \/ ws_clients[d] = {}
          THEN BroadcastReturns(r)
          ELSE req' = [req EXCEPT ![r].pc = "for_ws",
                                  ![r].snapshot = ws_clients[d],
                                  ![r].visited = {}, ![r].to_drop = {},
                                  ![r].attempted = {}]
    /\ UNCHANGED <<loop, ws_clients, ws, store>>

\* The frame a send writes to a connection.
Frame(type, from) == [type |-> type, from |-> from]

\* Variant of BroadcastVisit: the loop takes any connection of the snapshot,
\* also one it has already visited.
BroadcastVisitAgain(r, c) ==
    /\ req[r].pc = "for_ws" /\ loop = r
    /\ c \in req[r].snapshot
    /\ IF ws[c].closed
       THEN /\ req' = [req EXCEPT ![r].visited = @ \cup {c}, ![r].to_drop = @ \cup {c}]
            /\ UNCHANGED <<loop, ws>>
       ELSE /\ req' = [req EXCEPT ![r].visited = @ \cup {c}, ![r].attempted = @ \cup {c},
                                  ![r].send_to = c, ![r].pc = "send_str"]
            /\ ws' = [ws EXCEPT ![c].inbox = Append(@, Frame(req[r].msg, r))]
            /\ loop' = "idle"
    /\ UNCHANGED <<ws_clients, store>>

\* Variant of BroadcastVisit: a closed connection is skipped without being
\* marked to drop.
BroadcastVisitKeepsClosed(r, c) ==
    /\ req[r].pc = "for_ws" /\ loop = r
    /\ c \in req[r].snapshot \ req[r].visited
    /\ IF ws[c].closed
       THEN /\ req' = [req EXCEPT ![r].visited = @ \cup {c}]
            /\ UNCHANGED <<loop, ws>>
       ELSE /\ req' = [req EXCEPT ![r].visited = @ \cup {c}, ![r].attempted = @ \cup {c},
                                  ![r].send_to = c, ![r].pc = "send_str"]
            /\ ws' = [ws EXCEPT ![c].inbox = Append(@, Frame(req[r].msg, r))]
            /\ loop' = "idle"
    /\ UNCHANGED <<ws_clients, store>>

\* Lines 57-62: the next connection of the snapshot (a set: any order); a
\* closed one is marked to drop, another is sent the message and the task
\* suspends in send_str.
BroadcastVisit(r, c) ==
    /\ req[r].pc = "for_ws" /\ loop = r
    /\ c \in req[r].snapshot \ req[r].visited
    /\ IF ws[c].closed
       THEN /\ req' = [req EXCEPT ![r].visited = @ \cup {c}, ![r].to_drop = @ \cup {c}]
            /\ UNCHANGED <<loop, ws>>
       ELSE /\ req' = [req EXCEPT ![r].visited = @ \cup {c}, ![r].attempted = @ \cup {c},
                                  ![r].send_to = c, ![r].pc = "send_str"]
            /\ ws' = [ws EXCEPT ![c].inbox = Append(@, Frame(req[r].msg, r))]
            /\ loop' = "idle"
    /\ UNCHANGED <<ws_clients, store>>

\* Variants of SendFailed: the exception leaves ws_broadcast and reaches the
\* caller's handler; the exception ends the loop over the snapshot.
SendFailedLeaves(r) ==
    /\ req' = [req EXCEPT ![r].pc = "failed", ![r].send_to = "none",
                          ![r].response = ServerError]
    /\ loop' = "idle"
SendFailedBreaks(r) ==
    /\ req' = [req EXCEPT ![r].pc = "for_ws", ![r].send_to = "none",
                          ![r].to_drop = @ \cup {req[r].send_to},
                          ![r].visited = req[r].snapshot]
    /\ loop' = r

\* Lines 63-65: an exception of send_str is caught, logged, and the connection
\* marked to drop; the loop goes on.
SendFailed(r) ==
    /\ req' = [req EXCEPT ![r].pc = "for_ws", ![r].send_to = "none",
                          ![r].to_drop = @ \cup {req[r].send_to}]
    /\ loop' = r

\* send_str returns, or raises.
SendReturn(r, ok) ==
    /\ req[r].pc = "send_str" /\ Idle
    /\ IF ok
       THEN /\ req' = [req EXCEPT ![r].pc = "for_ws", ![r].send_to = "none"]
            /\ loop' = r
       ELSE SendFailed(r)
    /\ UNCHANGED <<ws_clients, ws, store>>

\* Variant of DropMarked: the device's set is rebuilt from the snapshot taken
\* before the sends.
DropMarkedFromSnapshot(r) ==
    [ws_clients EXCEPT ![req[r].device_id] = req[r].snapshot \ req[r].to_drop]

\* Lines 66-67: after the loop, discard every marked connection.
DropMarked(r) ==
    [ws_clients EXCEPT ![req[r].device_id] = @ \ req[r].to_drop]
BroadcastDrop(r) ==
    /\ req[r].pc = "for_ws" /\ loop = r
    /\ req[r].snapshot = req[r].visited
    /\ ws_clients' = DropMarked(r)
    /\ req' = [req EXCEPT ![r].pc = "broadcast_done"]
    /\ UNCHANGED <<loop, ws, store>>

BroadcastEnd(r) ==
    /\ req[r].pc = "broadcast_done" /\ loop = r
    /\ BroadcastReturns(r)
    /\ UNCHANGED <<loop, ws_clients, ws, store>>

\* ------------------------------------------------------------- render_post

Values(r) == ExtractValues(req[r].payload)

\* Variant of Decode: a payload that does not parse is handled like an empty
\* Uplink.
DecodeLenient(r) ==
    /\ req[r].pc = "received" /\ Idle
    /\ req' = [req EXCEPT ![r].pc = "decoded"]
    /\ loop' = r
    /\ UNCHANGED <<ws_clients, ws, store>>

\* Lines 263-267: parse the payload.  A payload that does not parse raises,
\* and the except branch (lines 435-437) answers with a server error.
Decode(r) ==
    /\ req[r].pc = "received" /\ Idle
    /\ IF req[r].payload.ok
       THEN /\ req' = [req EXCEPT ![r].pc = "decoded"]
            /\ loop' = r
       ELSE /\ req' = [req EXCEPT ![r].pc = "failed",
                                  ![r].response = ServerError]
            /\ loop' = "idle"
    /\ UNCHANGED <<ws_clients, ws, store>>

\* Lines 310-394: inside `if dev_id:`, the six conditional ws_broadcast calls
\* in source order; k is the next one.
SectionsLeft(r) == TruthyStr(Values(r).dev_id) /\ req[r].k <= Len(EventTypes)
Emit(r) ==
    /\ req[r].pc = "decoded" /\ loop = r
    /\ SectionsLeft(r)
    /\ IF Emits(Values(r), req[r].k)
       THEN req' = [req EXCEPT ![r].pc = "ws_broadcast",
                               ![r].device_id = Val(Values(r).dev_id),
                               ![r].msg = EventTypes[req[r].k],
                               ![r].emitted = Append(@, EventTypes[req[r].k])]
       ELSE req' = [req EXCEPT ![r].k = @ + 1]
    /\ UNCHANGED <<loop, ws_clients, ws, store>>

\* Variant of CallStore: store_uplink_to_supabase is called as soon as the
\* payload is decoded, with broadcasts still to make.
CallStoreEarly(r) ==
    /\ req[r].pc = "decoded" /\ loop = r
    /\ req' = [req EXCEPT ![r].pc = "store"]
    /\ store' = [store EXCEPT ![r] = NewStore(BuildData(Values(r)))]
    /\ UNCHANGED <<loop, ws_clients, ws>>

\* Lines 397-421: the call of store_uplink_to_supabase, made for every decoded
\* uplink.
CallStore(r) ==
    /\ req[r].pc = "decoded" /\ loop = r
    /\ ~SectionsLeft(r)
    /\ req' = [req EXCEPT ![r].pc = "store"]
    /\ store' = [store EXCEPT ![r] = NewStore(BuildData(Values(r)))]
    /\ UNCHANGED <<loop, ws_clients, ws>>

\* Variant of Respond: the Downlink echoes the heartbeat_interval the device
\* reported.
RespondEcho(r) ==
    /\ req[r].pc = "store_done" /\ loop = r
    /\ req[r].kind = "render_post"
    /\ LET hi == Values(r).heartbeat_interval
       IN req' = [req EXCEPT ![r].pc = "responded",
                             ![r].response =
                                 [code |-> "CONTENT",
                                  config |-> [heartbeat_interval |->
                                                 IF TruthyInt(hi) THEN Val(hi)
                                                 ELSE HEARTBEAT_INTERVAL,
                                              location_mode |-> LOCATION_MODE]]]
    /\ loop' = "idle"
    /\ UNCHANGED <<ws_clients, ws, store>>

\* Lines 423-433: the Downlink is built and returned; lines 435-437 when the
\* call of store_uplink_to_supabase raised.
Respond(r) ==
    /\ req[r].pc = "store_done" /\ loop = r
    /\ req[r].kind = "render_post"
    /\ IF store[r].exit = "raised"
       THEN req' = [req EXCEPT ![r].pc = "failed", ![r].response = ServerError]
       ELSE req' = [req EXCEPT ![r].pc = "responded", ![r].response = Downlink]
    /\ loop' = "idle"
    /\ UNCHANGED <<ws_clients, ws, store>>

\* ------------------------------------------------------------ test_handler

\* Lines 141-239: the event type one loop turn broadcasts, by the type query
\* parameter; "random" draws among the branches.
TestTypes(msg_type) ==
    CASE msg_type \in {"heartbeat", "activity", "temperature", "location", "reboot"} ->
            {msg_type}
      [] msg_type = "random" -> {"heartbeat", "activity", "temperature", "location", "coap"}
      [] OTHER -> {"coap"}

\* Lines 137-239: one turn of the loop calls ws_broadcast once.
TestBroadcast(r, type) ==
    /\ req[r].pc = "test" /\ Idle
    /\ type \in TestTypes(req[r].query.type)
    /\ req' = [req EXCEPT ![r].pc = "ws_broadcast",
                          ![r].device_id = req[r].query.deviceId,
                          ![r].msg = type,
                          ![r].emitted = Append(@, type)]
    /\ loop' = r
    /\ UNCHANGED <<ws_clients, ws, store>>

\* Lines 241-246: sleep before the next turn, or answer after the last.
TestNext(r) ==
    /\ req[r].pc = "test_sent" /\ loop = r
    /\ IF req[r].i + 1 < req[r].query.count
       THEN req' = [req EXCEPT ![r].pc = "test", ![r].i = @ + 1]
       ELSE req' = [req EXCEPT ![r].pc = "responded", ![r].i = @ + 1,
                               ![r].response = Ok200]
    /\ loop' = "idle"
    /\ UNCHANGED <<ws_clients, ws, store>>

\* ------------------------------------------------ store_uplink_to_supabase

\* The POST of an operation is sent: it is appended to the calls the backend
\* sees, and is in flight until its response.
Dispatch(st, names) ==
    [st EXCEPT !.issued = @ \o names,
               !.outcome = [n \in DOMAIN @ |->
                               IF \E j \in 1..Len(names) : names[j] = n
                               THEN "inflight" ELSE @[n]]]

\* Variant of Phase1: the upsert is started but not awaited.
Phase1NotAwaited(r) ==
    /\ req' = [req EXCEPT ![r].pc = "phase2"]
    /\ store' = [store EXCEPT ![r] = Dispatch(@, <<"device_config">>)]
    /\ UNCHANGED loop

\* Variant of Phase1: the upsert is a blocking call, the task keeps the event
\* loop until the backend answers.
Phase1Blocking(r) ==
    /\ req' = [req EXCEPT ![r].pc = "await_config"]
    /\ store' = [store EXCEPT ![r] = Dispatch(@, <<"device_config">>)]
    /\ UNCHANGED loop

\* Lines 141-142: phase 1, the device_config upsert, is awaited on its own
\* before any dependent task is built.
Phase1(r) ==
    /\ req' = [req EXCEPT ![r].pc = "await_config"]
    /\ store' = [store EXCEPT ![r] = Dispatch(@, <<"device_config">>)]
    /\ loop' = "idle"

\* Lines 126-142: the devid guard, then phase 1 when there is a device_config.
StoreBegin(r) ==
    /\ req[r].pc = "store" /\ loop = r
    /\ IF DevidMissing(store[r].data)
       THEN /\ req' = [req EXCEPT ![r].pc = "store_done"]
            /\ store' = [store EXCEPT ![r].exit = "returned"]
            /\ UNCHANGED loop
       ELSE IF HasDeviceConfig(store[r].data)
       THEN Phase1(r)
       ELSE /\ req' = [req EXCEPT ![r].pc = "phase2"]
            /\ UNCHANGED <<loop, store>>
    /\ UNCHANGED <<ws_clients, ws>>

\* Variant of ConfigReturn: a failed upsert ends the call, the dependent tasks
\* are never built.
ConfigReturnAborts(r, raw) ==
    /\ req[r].pc = "await_config" /\ Idle
    /\ store[r].outcome["device_config"] = "inflight"
    /\ LET ret == upsert_device_config(raw)
       IN /\ store' = [store EXCEPT ![r].outcome["device_config"] = ret,
                                    ![r].total_operations = @ + 1,
                                    ![r].success_count =
                                        IF ret = "True" THEN @ + 1 ELSE @]
          /\ req' = [req EXCEPT ![r].pc = IF ret = "True" THEN "phase2" ELSE "store_end"]
    /\ loop' = r
    /\ UNCHANGED <<ws_clients, ws>>

\* Lines 142-147: the upsert's result is counted.  An exception leaving the
\* method would leave store_uplink_to_supabase too (nothing here catches it).
ConfigReturn(r, raw) ==
    /\ req[r].pc = "await_config" /\ Idle
    /\ store[r].outcome["device_config"] = "inflight"
    /\ LET ret == upsert_device_config(raw)
       IN IF ret = "raise"
          THEN /\ store' = [store EXCEPT ![r].outcome["device_config"] = ret,
                                         ![r].exit = "raised"]
               /\ req' = [req EXCEPT ![r].pc = "store_done"]
          ELSE /\ store' = [store EXCEPT ![r].outcome["device_config"] = ret,
                                         ![r].total_operations = @ + 1,
                                         ![r].success_count =
                                             IF ret = "True" THEN @ + 1 ELSE @]
               /\ req' = [req EXCEPT ![r].pc = "phase2"]
    /\ loop' = r
    /\ UNCHANGED <<ws_clients, ws>>

\* Lines 150-184: the dependent tasks are built, counted, and started together
\* by asyncio.gather.
Gather(r) ==
    /\ req[r].pc = "phase2" /\ loop = r
    /\ LET task_names == DependentNames(store[r].data)
       IN IF task_names = <<>>
          THEN /\ req' = [req EXCEPT ![r].pc = "store_end"]
               /\ UNCHANGED <<loop, store>>
          ELSE /\ req' = [req EXCEPT ![r].pc = "gather"]
               /\ store' = [store EXCEPT
                              ![r] = Dispatch([@ EXCEPT !.total_operations =
                                                   @ + Len(task_names)], task_names)]
               /\ loop' = "idle"
    /\ UNCHANGED <<ws_clients, ws>>

\* One dependent task ends: it returns True or False, or raises.
TaskReturn(r, name, raw) ==
    /\ req[r].pc = "gather" /\ Idle
    /\ name # "device_config"
    /\ store[r].outcome[name] = "inflight"
    /\ store' = [store EXCEPT ![r].outcome[name] = DependentTask(name, raw)]
    /\ UNCHANGED <<loop, ws_clients, ws, req>>

InFlight(r) == {n \in DOMAIN store[r].outcome : store[r].outcome[n] = "inflight"}

\* Variant of CountTrue: every dependent task is counted as a success.
CountAll(st, names) == Len(names)

\* Variant of GatherReturn: gather returns as soon as the loop is free, with
\* tasks still running.
GatherReturnEarly(r) ==
    /\ req[r].pc = "gather" /\ Idle
    /\ store' = [store EXCEPT ![r].success_count =
                     @ + Cardinality({n \in DOMAIN store[r].outcome :
                                        n # "device_config" /\ store[r].outcome[n] = "True"})]
    /\ req' = [req EXCEPT ![r].pc = "store_end"]
    /\ loop' = r
    /\ UNCHANGED <<ws_clients, ws>>

\* Lines 184-195: gather(return_exceptions=True) returns when every task has
\* ended; an outcome that is an exception is logged, True is counted.
CountTrue(st, names) ==
    Cardinality({j \in 1..Len(names) : st.outcome[names[j]] = "True"})
GatherReturn(r) ==
    /\ req[r].pc = "gather" /\ Idle
    /\ InFlight(r) = {}
    /\ store' = [store EXCEPT ![r].success_count =
                     @ + CountTrue(store[r], DependentNames(store[r].data))]
    /\ req' = [req EXCEPT ![r].pc = "store_end"]
    /\ loop' = r
    /\ UNCHANGED <<ws_clients, ws>>

\* Variant of StoreEnd: when an operation failed, the whole batch is tried
\* again.
StoreEndRetries(r) ==
    /\ req[r].pc = "store_end" /\ loop = r
    /\ IF store[r].success_count < store[r].total_operations
       THEN /\ store' = [store EXCEPT ![r] = NewStore(store[r].data)]
            /\ req' = [req EXCEPT ![r].pc = "store"]
       ELSE /\ store' = [store EXCEPT ![r].exit = "returned"]
            /\ req' = [req EXCEPT ![r].pc = "store_done"]
    /\ UNCHANGED <<loop, ws_clients, ws>>

\* Lines 197-200: the summary is logged and the function returns.
StoreEnd(r) ==
    /\ req[r].pc = "store_end" /\ loop = r
    /\ store' = [store EXCEPT ![r].exit = "returned"]
    /\ req' = [req EXCEPT ![r].pc = "store_done"]
    /\ UNCHANGED <<loop, ws_clients, ws>>

\* ---------------------------------------------------------- test_supabase

\* test_supabase.py lines 28, 46, 62, 79, 104: a test awaits
\* store_uplink_to_supabase(test_data).
DirectCall(r) ==
    /\ req[r].pc = "call" /\ Idle
    /\ req' = [req EXCEPT ![r].pc = "store"]
    /\ loop' = r
    /\ UNCHANGED <<ws_clients, ws, store>>

\* test_supabase.py lines 110-128: the call returned, or raised into main's
\* except.
DirectReturn(r) ==
    /\ req[r].pc = "store_done" /\ loop = r
    /\ req[r].kind = "test_supabase"
    /\ req' = [req EXCEPT ![r].pc = IF store[r].exit = "raised" THEN "failed" ELSE "responded"]
    /\ loop' = "idle"
    /\ UNCHANGED <<ws_clients, ws, store>>

\* --------------------------------------------------------------- ws_handler

\* ws_clients[device_id].add(ws) on a defaultdict(set): the key appears on use.
Register(d, c) ==
    IF d \in DOMAIN ws_clients
    THEN [ws_clients EXCEPT ![d] = @ \cup {c}]
    ELSE ws_clients @@ (d :> {c})

\* ws_clients[device_id] read without creating the entry.
SetOfClients(d) == IF d \in DOMAIN ws_clients THEN ws_clients[d] ELSE {}

\* ws_clients[device_id].discard(ws): no error when ws is not in the set.
Discard(d, c) ==
    IF d \in DOMAIN ws_clients
    THEN [ws_clients EXCEPT ![d] = @ \ {c}]
    ELSE ws_clients @@ (d :> {})

\* Lines 83-90: 401 without authorization, 400 without a deviceId, else the
\* handshake (await ws.prepare).
WsRequest(c) ==
    /\ ws[c].pc = "new" /\ Idle
    /\ ws' = [ws EXCEPT ![c].pc =
                 IF ~ws[c].authorized THEN "401"
                 ELSE IF ~TruthyStr(ws[c].deviceId) THEN "400"
                 ELSE "prepare"]
    /\ UNCHANGED <<loop, ws_clients, req, store>>

\* Variant of WsPrepared: the connection is registered and no system/connected
\* message is sent.
WsPreparedSilent(c, ok) ==
    /\ ws[c].pc = "prepare" /\ Idle
    /\ IF ok
       THEN /\ ws_clients' = Register(Val(ws[c].deviceId), c)
            /\ ws' = [ws EXCEPT ![c].pc = "send_connected"]
       ELSE /\ ws' = [ws EXCEPT ![c].pc = "raised", ![c].closed = TRUE]
            /\ UNCHANGED ws_clients
    /\ UNCHANGED <<loop, req, store>>

\* Lines 90-102: after the handshake the connection is registered and the
\* system/connected message is sent; the task suspends in send_json.  A failed
\* handshake raises out of the handler before anything is registered.
WsPrepared(c, ok) ==
    /\ ws[c].pc = "prepare" /\ Idle
    /\ IF ok
       THEN /\ ws_clients' = Register(Val(ws[c].deviceId), c)
            /\ ws' = [ws EXCEPT ![c].pc = "send_connected",
                                ![c].inbox = Append(@, Frame("connected", c))]
       ELSE /\ ws' = [ws EXCEPT ![c].pc = "raised", ![c].closed = TRUE]
            /\ UNCHANGED ws_clients
    /\ UNCHANGED <<loop, req, store>>

\* Line 96 returns, or raises: the send is outside the try of line 104, so an
\* exception leaves the handler without running the finally of line 122.
WsConnectedReturn(c, ok) ==
    /\ ws[c].pc = "send_connected" /\ Idle
    /\ ws' = [ws EXCEPT ![c].pc = IF ok THEN "receive" ELSE "raised"]
    /\ UNCHANGED <<loop, ws_clients, req, store>>

\* Variant of WsReceive: every text message that parses as JSON is answered
\* with a pong.
WsReceiveEcho(c, m) ==
    /\ ws[c].pc = "receive" /\ Idle
    /\ ~ws[c].closed
    /\ ws[c].msgs < ws[c].budget
    /\ CASE m \in {"ping", "json"} ->
              /\ ws' = [ws EXCEPT ![c].pc = "send_pong", ![c].msgs = @ + 1,
                                  ![c].inbox = Append(@, Frame("pong", c))]
              /\ UNCHANGED ws_clients
         [] m = "ERROR" ->
              /\ ws' = [ws EXCEPT ![c].pc = "done", ![c].msgs = @ + 1]
              /\ ws_clients' = Discard(Val(ws[c].deviceId), c)
         [] OTHER ->
              /\ ws' = [ws EXCEPT ![c].msgs = @ + 1]
              /\ UNCHANGED ws_clients
    /\ UNCHANGED <<loop, req, store>>

\* Lines 105-121: one inbound message.  A ping is answered with a pong; other
\* messages are ignored; an ERROR message breaks the loop, and the finally of
\* lines 122-124 discards the connection.
InboundMessages == {"ping", "json", "nonjson", "binary", "ERROR"}
WsReceive(c, m) ==
    /\ ws[c].pc = "receive" /\ Idle
    /\ ~ws[c].closed
    /\ ws[c].msgs < ws[c].budget
    /\ CASE m = "ping" ->
              /\ ws' = [ws EXCEPT ![c].pc = "send_pong", ![c].msgs = @ + 1,
                                  ![c].inbox = Append(@, Frame("pong", c))]
              /\ UNCHANGED ws_clients
         [] m = "ERROR" ->
              /\ ws' = [ws EXCEPT ![c].pc = "done", ![c].msgs = @ + 1]
              /\ ws_clients' = Discard(Val(ws[c].deviceId), c)
         [] OTHER ->
              /\ ws' = [ws EXCEPT ![c].msgs = @ + 1]
              /\ UNCHANGED ws_clients
    /\ UNCHANGED <<loop, req, store>>

\* Lines 111-118: the pong's send returns, or raises into `except Exception:
\* pass`; the loop goes on either way.
WsPongReturn(c, ok) ==
    /\ ws[c].pc = "send_pong" /\ Idle
    /\ ws' = [ws EXCEPT ![c].pc = "receive"]
    /\ UNCHANGED <<loop, ws_clients, req, store>>

\* The connection closes (the client leaves, or the heartbeat of line 89 times
\* out): ws.closed becomes True.
WsClose(c) ==
    /\ ws[c].pc \in {"send_connected", "receive", "send_pong"} /\ Idle
    /\ ~ws[c].closed
    /\ ws' = [ws EXCEPT ![c].closed = TRUE]
    /\ UNCHANGED <<loop, ws_clients, req, store>>

\* Variant of WsDisconnected: the finally removes the connection with
\* set.remove, which raises KeyError when the connection is not in the set.
WsDisconnectedRemove(c) ==
    /\ ws[c].pc = "receive" /\ Idle
    /\ ws[c].closed
    /\ IF c \in SetOfClients(Val(ws[c].deviceId))
       THEN /\ ws' = [ws EXCEPT ![c].pc = "done"]
            /\ ws_clients' = Discard(Val(ws[c].deviceId), c)
       ELSE /\ ws' = [ws EXCEPT ![c].pc = "raised"]
            /\ UNCHANGED ws_clients
    /\ UNCHANGED <<loop, req, store>>

\* Lines 105, 122-124: on a closed connection the `async for` ends and the
\* finally discards the connection.
WsDisconnected(c) ==
    /\ ws[c].pc = "receive" /\ Idle
    /\ ws[c].closed
    /\ ws' = [ws EXCEPT ![c].pc = "done"]
    /\ ws_clients' = Discard(Val(ws[c].deviceId), c)
    /\ UNCHANGED <<loop, req, store>>

\* ------------------------------------------------------------------ inputs

UnusedReq == NewReq("unused", "unused", Malformed, NoQuery)
UplinkReq(p) == NewReq("render_post", "received", p, NoQuery)
TestReq(q) == NewReq("test_handler", "test", Malformed, q)
DirectReq == NewReq("test_supabase", "call", Malformed, NoQuery)
UnusedWs == NewWs("unused", None, FALSE, 0)

\* The /ws requests a client can make: the deviceId query parameter (missing,
\* empty, or a device) and whether its token passes ws_is_authorized.
WsClients(devs, budget) ==
    {NewWs("new", d, a, budget) :
        d \in {None, Some("")} \cup {Some(x) : x \in devs}, a \in BOOLEAN}

\* Uplinks of one device that between them carry every section, absent, with
\* zero values and with non-zero values.
SampleHeartbeats(d) ==
    {[config |-> Some(FullConfig(d)), activity |-> None, reboot |-> None,
      modem_temperature |-> None],
     [config |-> Some(ZeroConfig(d)), activity |-> Some(ZeroActivity),
      reboot |-> Some(ZeroReboot), modem_temperature |-> Some(0)],
     [config |-> Some(FullConfig(d)), activity |-> Some(FullActivity),
      reboot |-> None, modem_temperature |-> Some(23)]}
SamplePayloads ==
    Payloads({""})
    \cup {[ok |-> TRUE, heartbeat |-> Some(h), location |-> l, uplink_count |-> 42] :
            h \in SampleHeartbeats("D1"), l \in LocationSections}

\* The GET /test requests: the device, the type and the count parameters.
TestQueries(devs, types) ==
    {[deviceId |-> d, type |-> t, count |-> n] :
        d \in devs, t \in types, n \in 1..MaxCount}

\* The dicts a caller passes to store_uplink_to_supabase: as render_post builds
\* them (every key, None for an absent section) and as test_supabase.py builds
\* them (some of the keys), with zero and non-zero values, and empty.
EmptyDict == [x \in {} |-> 0]
ConfigDicts ==
    {None, Some(EmptyDict),
     Some([heartbeat_interval |-> Some(0), iccid |-> Some(""), hw_version |-> Some(""),
           sw_version |-> Some(""), application_mode |-> Some("0")]),
     Some([heartbeat_interval |-> Some(600), hw_version |-> Some("v1.3.0"),
           sw_version |-> Some("v2.2.0")])}
ActivityDicts ==
    {None, Some(EmptyDict),
     Some([sleep |-> Some(0), modem |-> Some(0), gnss |-> Some(0)]),
     Some([sleep |-> Some(85), modem |-> Some(10), gnss |-> Some(3), wifi |-> Some(2),
           other |-> Some(0)])}
RebootDicts ==
    {None, Some(EmptyDict),
     Some([reason |-> Some("WATCHDOG_RESET"), file |-> Some("main.c"), line |-> Some(123)])}
DataSet ==
    {[devid |-> d, uplink_count |-> 42, device_config |-> c, activity |-> a,
      reboot |-> b, temperature |-> t, wifi |-> w] :
        d \in {None, Some(""), Some("D1")}, c \in ConfigDicts, a \in ActivityDicts,
        b \in RebootDicts, t \in {None, Some(0), Some(23)},
        w \in {None} \cup {Some(l) : l \in WifiLists}}

\* The states the program starts in: the requests that will arrive, the
\* clients that will connect, and (for a direct call) the data passed.
InitWith(R1, R2, S1, W1, W2) ==
    /\ loop = "idle"
    /\ ws_clients = <<>>
    /\ \E x \in R1, y \in R2 : req = [r \in Reqs |-> IF r = "r1" THEN x ELSE y]
    /\ \E d \in S1 : store = [r \in Reqs |-> IF r = "r1" THEN NewStore(d) ELSE NewStore(NoData)]
    /\ \E x \in W1, y \in W2 : ws = [c \in Conns |-> IF c = "w1" THEN x ELSE y]

\* ----------------------------------------------------------- specification

BroadcastStep(r) ==
    \/ BroadcastBegin(r) \/ BroadcastDrop(r) \/ BroadcastEnd(r)
    \/ \E c \in Conns : BroadcastVisit(r, c)
    \/ \E ok \in BOOLEAN : SendReturn(r, ok)
StoreStep(r) ==
    \/ StoreBegin(r) \/ Gather(r) \/ GatherReturn(r) \/ StoreEnd(r)
    \/ \E raw \in RawOutcomes : ConfigReturn(r, raw)
    \/ \E raw \in RawOutcomes, j \in 1..Len(OpKinds) : TaskReturn(r, OpKinds[j], raw)
WsStep(c) ==
    \/ WsRequest(c) \/ WsClose(c) \/ WsDisconnected(c)
    \/ \E ok \in BOOLEAN : WsPrepared(c, ok)
    \/ \E ok \in BOOLEAN : WsConnectedReturn(c, ok)
    \/ \E ok \in BOOLEAN : WsPongReturn(c, ok)
    \/ \E m \in InboundMessages : WsReceive(c, m)

\* One uplink and one WebSocket client.
Next ==
    \/ \E r \in Reqs : Decode(r) \/ Emit(r) \/ CallStore(r) \/ Respond(r)
    \/ \E r \in Reqs : BroadcastStep(r)
    \/ \E r \in Reqs : StoreStep(r)
    \/ \E c \in Conns : WsStep(c)
Init ==
    InitWith({UplinkReq(p) : p \in SamplePayloads}, {UnusedReq}, {NoData},
             WsClients({"D1"}, MaxMsgs), {UnusedWs})
Spec == Init /\ [][Next]_vars

\* Every uplink, and no WebSocket client.
NextUplinks ==
    \/ \E r \in Reqs : Decode(r) \/ Emit(r) \/ CallStore(r) \/ Respond(r)
    \/ \E r \in Reqs : BroadcastBegin(r)
    \/ \E r \in Reqs : StoreStep(r)
InitUplinks ==
    InitWith({UplinkReq(p) : p \in Payloads({"", "D1"})}, {UnusedReq}, {NoData},
             {UnusedWs}, {UnusedWs})
SpecUplinks == InitUplinks /\ [][NextUplinks]_vars

\* One direct call of store_uplink_to_supabase, with any data.
NextPersist ==
    \/ \E r \in Reqs : DirectCall(r) \/ DirectReturn(r)
    \/ \E r \in Reqs : StoreStep(r)
InitPersist ==
    InitWith({DirectReq}, {UnusedReq}, DataSet, {UnusedWs}, {UnusedWs})
SpecPersist == InitPersist /\ [][NextPersist]_vars

\* One GET /test request and two WebSocket clients.
NextHub ==
    \/ \E r \in Reqs : \E t \in EventTypeSet : TestBroadcast(r, t)
    \/ \E r \in Reqs : TestNext(r)
    \/ \E r \in Reqs : BroadcastStep(r)
    \/ \E c \in Conns : WsStep(c)
InitHub ==
    InitWith({TestReq(q) : q \in TestQueries({"D1"}, {"coap", "heartbeat"})},
             {UnusedReq}, {NoData},
             WsClients({"D1"}, MaxMsgs), {UnusedWs} \cup WsClients({"D1", "D2"}, 0))
SpecHub == InitHub /\ [][NextHub]_vars

\* Two uplinks of one device, served concurrently, and one WebSocket client of
\* that device: the broadcasts of render_post up to its call of
\* store_uplink_to_supabase.
OrderPayloads ==
    {[ok |-> TRUE,
      heartbeat |-> Some([config |-> Some(FullConfig("D1")), activity |-> a,
                          reboot |-> None, modem_temperature |-> None]),
      location |-> None, uplink_count |-> 42] : a \in {None, Some(FullActivity)}}
NextOrder ==
    \/ \E r \in Reqs : Decode(r) \/ Emit(r) \/ CallStore(r)
    \/ \E r \in Reqs : BroadcastStep(r)
    \/ \E c \in Conns : WsStep(c)
InitOrder ==
    InitWith({UplinkReq(p) : p \in OrderPayloads},
             {UplinkReq([p EXCEPT !.uplink_count = 43]) :
                 p \in {q \in OrderPayloads : IsNone(Val(q.heartbeat).activity)}},
             {NoData}, {NewWs("new", Some("D1"), TRUE, MaxMsgs)}, {UnusedWs})
SpecOrder == InitOrder /\ [][NextOrder]_vars

\* Two uplinks in flight at once, of the same device or of two devices, and one
\* WebSocket client of the first device that subscribes and stays.
PairPayloads(devs) ==
    {[ok |-> TRUE,
      heartbeat |-> Some([config |-> Some(FullConfig(d)), activity |-> None,
                          reboot |-> None, modem_temperature |-> None]),
      location |-> None, uplink_count |-> 43] : d \in devs}
NextPair ==
    \/ \E r \in Reqs : Decode(r) \/ Emit(r) \/ CallStore(r) \/ Respond(r)
    \/ \E r \in Reqs : BroadcastStep(r)
    \/ \E r \in Reqs : StoreStep(r)
    \/ \E c \in Conns : WsRequest(c)
    \/ \E c \in Conns, ok \in BOOLEAN : WsPrepared(c, ok)
    \/ \E c \in Conns, ok \in BOOLEAN : WsConnectedReturn(c, ok)
InitPair ==
    InitWith({UplinkReq(p) : p \in {q \in OrderPayloads : ~IsNone(Val(q.heartbeat).activity)}},
             {UplinkReq(p) : p \in PairPayloads(Devices)},
             {NoData}, {NewWs("new", Some("D1"), TRUE, 0)}, {UnusedWs})
SpecPair == InitPair /\ [][NextPair]_vars

\* ------------------------------------------------------------ properties

Uplinked == {r \in Reqs : req[r].kind = "render_post"}
Stored == {r \in Reqs : req[r].kind \in {"render_post", "test_supabase"}}
Has(seq, x) == \E j \in 1..Len(seq) : seq[j] = x
Count(seq, x) == Cardinality({j \in 1..Len(seq) : seq[j] = x})
Completed(st, n) == st.outcome[n] \in {"True", "False", "raise"}

\* The orchestrator state of a request (spec 4.4), read off its position.
State(r) ==
    CASE req[r].pc = "received" -> "RECEIVED"
      [] req[r].pc = "failed" -> "FAILED"
      [] req[r].pc = "store_done" -> "FANNED_OUT"
      [] req[r].pc = "responded" -> "RESPONDED"
      [] OTHER -> "DECODED"

\* The device id the wire message carries in its config section ("" when the
\* heartbeat or the config section is absent).
WireDeviceId(p) ==
    IF IsNone(p.heartbeat) THEN ""
    ELSE IF IsNone(Val(p.heartbeat).config) THEN ""
    ELSE Val(Val(p.heartbeat).config).dev_id

\* The frames of request r written to connection c.
FramesFrom(c, r) == {j \in 1..Len(ws[c].inbox) : ws[c].inbox[j].from = r}

\* C1: within one call of store_uplink_to_supabase that derives a
\* config_upsert, no dependent operation (activity, reboot, temperature, wifi)
\* has been dispatched while the config_upsert has not completed, whether it
\* then completed with True or with False.
C1_ConfigCompletesFirst ==
    \A r \in Stored :
        (~DevidMissing(store[r].data) /\ TruthyDict(store[r].data.device_config)) =>
            \A j \in 1..Len(store[r].issued) :
                store[r].issued[j] # "device_config" =>
                    /\ store[r].issued[1] = "device_config"
                    /\ store[r].outcome["device_config"] \in {"True", "False"}
C1_Witness ==
    \E r \in Stored :
        /\ store[r].outcome["device_config"] = "False"
        /\ store[r].outcome["activity"] = "inflight"
        /\ store[r].outcome["wifi"] = "inflight"

\* A dependent task that is in flight can end with True.
TaskSucceeds(r, n) ==
    /\ TaskReturn(r, n, "2xx")
    /\ store'[r].outcome[n] = "True"

\* C2: store_uplink_to_supabase never raises: whatever the outcomes of its
\* operations it returns normally, with every operation it dispatched ended;
\* and while the dependent tasks run, each one still in flight can end with
\* True whatever its siblings ended with.
C2_PersistNeverFails ==
    \A r \in Stored :
        /\ store[r].exit # "raised"
        /\ req[r].pc # "failed"
        /\ store[r].exit = "returned" =>
              \A j \in 1..Len(store[r].issued) : Completed(store[r], store[r].issued[j])
        /\ (req[r].pc = "gather" /\ Idle) =>
              \A n \in InFlight(r) : ENABLED TaskSucceeds(r, n)
C2_Witness ==
    \E r \in Stored :
        /\ store[r].exit = "returned"
        /\ store[r].outcome["device_config"] = "False"
        /\ store[r].outcome["temperature"] = "False"
        /\ store[r].outcome["activity"] = "True"
        /\ store[r].success_count = 1

\* A step of request r's handler task, in any of the functions it calls.
RequestStep(r) ==
    \/ Decode(r) \/ Emit(r) \/ CallStore(r) \/ Respond(r)
    \/ BroadcastStep(r) \/ StoreStep(r)

\* What holds of every request in every state: FAILED goes with a payload that
\* does not decode and the server error, RESPONDED with a payload that decodes
\* and the Downlink, and a request whose payload decodes has a next step until
\* it is RESPONDED.
C3_Inv ==
    \A r \in Uplinked :
        /\ State(r) = "FAILED" => (~req[r].payload.ok /\ req[r].response = ServerError)
        /\ State(r) = "RESPONDED" => (req[r].payload.ok /\ req[r].response = Downlink)
        /\ ~req[r].payload.ok => State(r) \in {"RECEIVED", "FAILED"}
        /\ (req[r].payload.ok /\ State(r) # "RESPONDED") => ENABLED RequestStep(r)
\* FAILED is entered from RECEIVED only.
C3_Step ==
    \A r \in Uplinked :
        (State(r)' = "FAILED" /\ State(r) # "FAILED") => State(r) = "RECEIVED"

\* C3: a request ends FAILED only when its payload does not decode; a request
\* whose payload decodes is never FAILED, goes on until it is RESPONDED, and is
\* then answered with the Downlink, whatever sends and operations failed; and
\* FAILED is entered from RECEIVED only, never from DECODED or FANNED_OUT.
C3_OnlyDecodeFails == [](C3_Inv) /\ [][C3_Step]_vars
C3_Witness ==
    \E r \in Uplinked : \E c \in Conns :
        /\ State(r) = "RESPONDED"
        /\ c \in req[r].attempted \cap req[r].to_drop
        /\ store[r].outcome["device_config"] = "False"
        /\ store[r].outcome["temperature"] = "False"
        /\ store[r].success_count = 0

\* C4: a request whose payload does not decode calls ws_broadcast never,
\* writes no frame to any connection, dispatches no backend operation, and is
\* answered with the server error.
C4_DecodeFailure ==
    \A r \in Uplinked :
        ~req[r].payload.ok =>
            /\ req[r].emitted = <<>>
            /\ \A c \in Conns : FramesFrom(c, r) = {}
            /\ store[r].issued = <<>>
            /\ req[r].response \in {NoResponse, ServerError}
            /\ req[r].pc \in {"received", "failed"}
            /\ req[r].pc = "failed" => req[r].response = ServerError
C4_Witness ==
    \E r \in Uplinked : \E c \in Conns :
        /\ ~req[r].payload.ok
        /\ req[r].pc = "failed"
        /\ ws[c].pc = "receive"
        /\ "D1" \in DOMAIN ws_clients /\ c \in ws_clients["D1"]

\* C5: a request whose payload decodes but carries no device id (no config
\* section, or an empty dev_id) calls ws_broadcast never, dispatches no backend
\* operation, never fails, and is answered with the Downlink.
C5_NoDeviceId ==
    \A r \in Uplinked :
        (req[r].payload.ok /\ WireDeviceId(req[r].payload) = "") =>
            /\ req[r].emitted = <<>>
            /\ \A c \in Conns : FramesFrom(c, r) = {}
            /\ store[r].issued = <<>>
            /\ store[r].total_operations = 0
            /\ State(r) # "FAILED"
            /\ State(r) = "RESPONDED" => req[r].response = Downlink
C5_Witness ==
    \E r \in Uplinked :
        /\ State(r) = "RESPONDED"
        /\ req[r].payload.ok
        /\ ~IsNone(req[r].payload.heartbeat)
        /\ Val(req[r].payload.heartbeat).config = Some(FullConfig(""))
        /\ ~IsNone(Val(req[r].payload.heartbeat).activity)
        /\ ~IsNone(req[r].payload.location)

\* The sections the wire message marks as present.
WireHas(p, section) ==
    /\ ~IsNone(p.heartbeat)
    /\ CASE section = "config" -> ~IsNone(Val(p.heartbeat).config)
         [] section = "activity" -> ~IsNone(Val(p.heartbeat).activity)
         [] section = "reboot" -> ~IsNone(Val(p.heartbeat).reboot)
         [] OTHER -> TRUE
WireHasScans(p) == ~IsNone(p.location) /\ Len(Val(p.location).wifi) > 0

\* render_post is past its ws_broadcast calls.
EmissionDone(r) ==
    req[r].pc \in {"store", "await_config", "phase2", "gather", "store_end",
                   "store_done", "responded"}

\* The events the spec (4.4 step 3) asks for: the base event, then one per
\* present section.  The temperature reading counts as present whenever the
\* heartbeat that carries it is.
ExpectedEvents(p) ==
    <<"coap">>
    \o (IF WireHas(p, "config") THEN <<"heartbeat">> ELSE <<>>)
    \o (IF WireHas(p, "activity") THEN <<"activity">> ELSE <<>>)
    \o (IF WireHas(p, "reboot") THEN <<"reboot">> ELSE <<>>)
    \o (IF WireHas(p, "temperature") THEN <<"temperature">> ELSE <<>>)
    \o (IF WireHasScans(p) THEN <<"location">> ELSE <<>>)

\* C6: for every decoded uplink with a device id, the ws_broadcast calls of
\* render_post are the base coap event followed by one event per present
\* section and none for an absent one, in the order heartbeat, activity,
\* reboot, temperature, location.
C6_EventsPerSection ==
    \A r \in Uplinked :
        (req[r].payload.ok /\ WireDeviceId(req[r].payload) # "" /\ EmissionDone(r)) =>
            req[r].emitted = ExpectedEvents(req[r].payload)

\* C7: a config, activity or reboot section whose presence marker is set
\* produces its event and its backend operation, whatever its field values.
C7_MarkerDecidesPresence ==
    \A r \in Uplinked :
        (req[r].payload.ok /\ WireDeviceId(req[r].payload) # "" /\ State(r) = "RESPONDED") =>
            /\ WireHas(req[r].payload, "config") =>
                  (Has(req[r].emitted, "heartbeat") /\ Has(store[r].issued, "device_config"))
            /\ WireHas(req[r].payload, "activity") =>
                  (Has(req[r].emitted, "activity") /\ Has(store[r].issued, "activity"))
            /\ WireHas(req[r].payload, "reboot") =>
                  (Has(req[r].emitted, "reboot") /\ Has(store[r].issued, "reboot"))

\* The uplink carries a config section with a device id, and nothing else.
ConfigOnly(p) ==
    /\ p.ok /\ IsNone(p.location) /\ ~IsNone(p.heartbeat)
    /\ WireDeviceId(p) # ""
    /\ IsNone(Val(p.heartbeat).activity) /\ IsNone(Val(p.heartbeat).reboot)
    /\ IsNone(Val(p.heartbeat).modem_temperature)

\* C8: an uplink that carries a device id and a config section and no other
\* section yields the events coap, heartbeat and the one operation
\* device_config.
C8_ConfigOnly ==
    \A r \in Uplinked :
        (ConfigOnly(req[r].payload) /\ State(r) = "RESPONDED") =>
            /\ req[r].emitted = <<"coap", "heartbeat">>
            /\ store[r].issued = <<"device_config">>

\* A section of the data passed to store_uplink_to_supabase is present when it
\* is a dict with at least one entry; None and the empty dict are absent.
PresentDict(o) == ~IsNone(o) /\ DOMAIN Val(o) # {}
PresentIn(data, n) ==
    CASE n = "device_config" -> PresentDict(data.device_config)
      [] n = "activity" -> PresentDict(data.activity)
      [] n = "reboot" -> PresentDict(data.reboot)
      [] n = "temperature" -> ~IsNone(data.temperature)
      [] OTHER -> ~IsNone(data.wifi) /\ Val(data.wifi) # <<>>

\* C9: a call with a device id never dispatches an operation for a section
\* that is absent nor two for one section, and when it returns it has
\* dispatched exactly one operation for each present section (a temperature of
\* 0 is present, an empty wifi list is not) and counted them in
\* total_operations; with no section present it dispatches nothing and
\* counts 0.
C9_OperationsDerived ==
    \A r \in Stored :
        ~DevidMissing(store[r].data) =>
            \A n \in DOMAIN store[r].outcome :
                /\ Count(store[r].issued, n) <= (IF PresentIn(store[r].data, n) THEN 1 ELSE 0)
                /\ store[r].exit = "returned" =>
                      /\ Count(store[r].issued, n) = (IF PresentIn(store[r].data, n) THEN 1 ELSE 0)
                      /\ store[r].total_operations = Len(store[r].issued)
C9_Witness ==
    \E r \in Stored :
        /\ store[r].exit = "returned"
        /\ store[r].data.devid = Some("D1")
        /\ store[r].data.temperature = Some(0)
        /\ store[r].data.wifi = Some(<<>>)
        /\ store[r].data.device_config = Some(EmptyDict)
        /\ store[r].issued = <<"temperature">>
        /\ store[r].total_operations = 1

\* C10: a ws_broadcast call never ends in an error of its caller; when it has
\* gone through its snapshot, every connection of the snapshot was sent the
\* message unless it was found closed, also after another connection's send
\* failed, and every connection whose send failed is out of the device's set.
C10_BroadcastIsolatesFailures ==
    \A r \in Reqs :
        /\ req[r].pc # "failed"
        /\ req[r].pc = "broadcast_done" =>
              /\ req[r].snapshot \subseteq req[r].attempted \cup req[r].to_drop
              /\ \A c \in req[r].snapshot \ req[r].attempted : ws[c].closed
              /\ ws_clients[req[r].device_id] \cap req[r].to_drop = {}
C10_Witness ==
    \E r \in Reqs :
        /\ req[r].pc = "send_str"
        /\ req[r].send_to = "w2"
        /\ req[r].to_drop = {"w1"}
        /\ "w1" \in req[r].attempted
        /\ ~ws["w1"].closed

\* ws_broadcast is called for a device nobody listens to: the device id is
\* empty, has no entry in ws_clients, or has an empty set.
ZeroSubscribers(r) ==
    LET d == req[r].device_id
    IN  d = "" \/ d \notin DOMAIN ws_clients \/ ws_clients[d] = {}
C11_Step ==
    \A r \in Reqs :
        (req[r].pc = "ws_broadcast" /\ req'[r].pc # "ws_broadcast" /\ ZeroSubscribers(r)) =>
            /\ req'[r].pc \in {"decoded", "test_sent"}
            /\ loop = r /\ loop' = r
            /\ ws' = ws
            /\ ws_clients' = ws_clients
            /\ req'[r].snapshot = req[r].snapshot /\ req'[r].attempted = req[r].attempted

\* C11: a ws_broadcast call for a device with no subscriber (no entry in
\* ws_clients, or an empty set) returns to its caller in the same step: no
\* error, no send on any connection, no suspension (the caller keeps the
\* event loop), and ws_clients is left as it was, with no entry created.
C11_NoSubscribers == [][C11_Step]_vars
C11_Witness ==
    \E r \in Reqs :
        /\ req[r].pc = "test_sent"
        /\ req[r].device_id = "D1"
        /\ "D1" \notin DOMAIN ws_clients
        /\ \A c \in Conns : FramesFrom(c, r) = {}

\* A step of request r's handler task other than the completion of a send to
\* a subscriber.
StepWithoutDelivery(r) ==
    \/ Decode(r) \/ Emit(r) \/ CallStore(r) \/ Respond(r)
    \/ BroadcastBegin(r) \/ BroadcastDrop(r) \/ BroadcastEnd(r)
    \/ \E c \in Conns : BroadcastVisit(r, c)
    \/ StoreStep(r)

\* C12: the response of a request does not wait for subscriber delivery: a
\* request whose payload decodes and that is not yet RESPONDED can always go
\* on towards its response without the completion of a send to a subscriber,
\* so a send that never completes cannot hold it back.
C12_ResponseDoesNotWait ==
    \A r \in Uplinked :
        (req[r].payload.ok /\ State(r) # "RESPONDED") => ENABLED StepWithoutDelivery(r)

\* The subscribers of device d in a registry (a defaultdict: no entry reads as
\* the empty set).
SetOf(reg, d) == IF d \in DOMAIN reg THEN reg[d] ELSE {}
\* The step in which ws_handler registers connection c (line 92), the step in
\* which its finally discards c (line 123), and the step in which the
\* ws_broadcast call of request r discards its marked connections (lines 66-67).
Subscribes(c) == ws[c].pc = "prepare" /\ ws'[c].pc = "send_connected"
Unsubscribes(c) == ws[c].pc # "done" /\ ws'[c].pc = "done"
Drops(r) == req[r].pc = "for_ws" /\ req'[r].pc = "broadcast_done"

\* In every state: a device's set holds only connections that subscribed to
\* that device and whose handler has not unsubscribed; a connection is marked
\* to drop only when it was found closed or a send to it was attempted; no
\* request has failed.
C13_Inv ==
    /\ \A d \in DOMAIN ws_clients : \A c \in ws_clients[d] :
          /\ ws[c].deviceId = Some(d)
          /\ ws[c].pc \in {"send_connected", "receive", "send_pong", "raised"}
    /\ \A r \in Reqs :
          /\ req[r].pc # "failed"
          /\ \A c \in req[r].to_drop : ws[c].closed \/ c \in req[r].attempted
\* In every step: a connection enters a device's set only by its own
\* subscription to that device, and every subscription enters; it leaves only
\* by its own unsubscription or by the drop of a ws_broadcast call that marked
\* it, and every unsubscription and drop removes exactly its connections.
C13_Step ==
    /\ \A d \in Devices :
          /\ \A c \in SetOf(ws_clients', d) \ SetOf(ws_clients, d) :
                Subscribes(c) /\ ws[c].deviceId = Some(d)
          /\ \A c \in SetOf(ws_clients, d) \ SetOf(ws_clients', d) :
                \/ Unsubscribes(c)
                \/ \E r \in Reqs : Drops(r) /\ req[r].device_id = d /\ c \in req[r].to_drop
    /\ \A c \in Conns :
          /\ Subscribes(c) => c \in SetOf(ws_clients', Val(ws[c].deviceId))
          /\ Unsubscribes(c) => c \notin SetOf(ws_clients', Val(ws[c].deviceId))
    /\ \A r \in Reqs :
          Drops(r) => SetOf(ws_clients', req[r].device_id)
                        = SetOf(ws_clients, req[r].device_id) \ req[r].to_drop

\* C13: under every interleaving of ws_handler tasks subscribing and
\* unsubscribing and ws_broadcast calls suspended in their sends, a device's
\* set is changed only, and always, by a subscription (adds that connection),
\* an unsubscription or a drop for a closed connection or failed send (removes
\* exactly those connections): no registration or removal is lost, a removed
\* connection does not come back, and no broadcast fails.
C13_RegistryConsistent == [](C13_Inv) /\ [][C13_Step]_vars
C13_Witness ==
    \E r \in Reqs :
        /\ req[r].pc = "broadcast_done"
        /\ req[r].snapshot = {"w1"}
        /\ req[r].to_drop = {"w1"}
        /\ "w1" \in req[r].attempted
        /\ ws_clients["D1"] = {"w2"}

\* The operations of a call that ended with True.
Succeeded(st) == {j \in 1..Len(st.issued) : st.outcome[st.issued[j]] = "True"}

\* C14: when store_uplink_to_supabase has returned, total_operations is the
\* number of operations it dispatched, success_count is the number of those
\* that ended with True (one that returned False or raised is not counted),
\* and 0 <= success_count <= total_operations.
C14_Counts ==
    \A r \in Stored :
        store[r].exit = "returned" =>
            /\ store[r].total_operations = Len(store[r].issued)
            /\ store[r].success_count = Cardinality(Succeeded(store[r]))
            /\ 0 <= store[r].success_count
            /\ store[r].success_count <= store[r].total_operations
C14_Witness ==
    \E r \in Stored :
        /\ store[r].exit = "returned"
        /\ store[r].total_operations = 4
        /\ store[r].success_count = 2
        /\ store[r].outcome["device_config"] = "True"
        /\ store[r].outcome["reboot"] = "False"

\* C15: every request that is answered with a Downlink is answered with the
\* same configuration, heartbeat_interval 1100 and location_mode 2, whatever
\* its uplink carried, whoever was subscribed and however the sends and the
\* backend operations ended; and a request that is RESPONDED has that answer.
C15_FixedDownlink ==
    \A r \in Uplinked :
        /\ req[r].response.code = "CONTENT" =>
              req[r].response.config = [heartbeat_interval |-> 1100, location_mode |-> 2]
        /\ State(r) = "RESPONDED" => req[r].response.code = "CONTENT"
C15_Witness ==
    \E r \in Uplinked :
        /\ State(r) = "RESPONDED"
        /\ WireDeviceId(req[r].payload) = "D1"
        /\ Val(req[r].payload.heartbeat).config = Some(FullConfig("D1"))
        /\ store[r].outcome["device_config"] = "True"
        /\ store[r].outcome["activity"] = "False"
        /\ req[r].to_drop # {}

\* The system/connected messages written to connection c.
ConnectedFrames(c) == {j \in 1..Len(ws[c].inbox) : ws[c].inbox[j].type = "connected"}
\* The devices under which connection c is registered.
RegisteredUnder(reg, c) == {d \in DOMAIN reg : c \in reg[d]}

C16_Inv ==
    \A c \in Conns :
        /\ RegisteredUnder(ws_clients, c) \subseteq
              {d \in Devices : ws[c].deviceId = Some(d) /\ ws[c].authorized}
        /\ ws[c].pc \in {"unused", "new", "401", "400", "prepare"} =>
              (ConnectedFrames(c) = {} /\ RegisteredUnder(ws_clients, c) = {})
        /\ ws[c].pc \in {"send_connected", "receive", "send_pong", "done"} =>
              Cardinality(ConnectedFrames(c)) = 1
        /\ Cardinality(ConnectedFrames(c)) <= 1
C16_Step ==
    \A c \in Conns :
        Subscribes(c) =>
            /\ RegisteredUnder(ws_clients', c) = {Val(ws[c].deviceId)}
            /\ ws'[c].inbox = Append(ws[c].inbox, Frame("connected", c))

\* C16: a subscription that is accepted (authorized, with a deviceId, the
\* handshake done) registers its connection under the requested deviceId and
\* under no other, and writes exactly one system/connected message to that
\* connection; a request that is refused registers nothing and is sent
\* nothing.
C16_SubscribeRegistersAndGreets == [](C16_Inv) /\ [][C16_Step]_vars
C16_Witness ==
    /\ ws["w2"].pc = "receive" /\ ws["w2"].deviceId = Some("D2")
    /\ ws["w1"].pc = "receive" /\ ws["w1"].deviceId = Some("D1")
    /\ RegisteredUnder(ws_clients, "w2") = {"D2"}
    /\ RegisteredUnder(ws_clients, "w1") = {"D1"}
    /\ Cardinality(ConnectedFrames("w2")) = 1

\* The receive loop of connection c ends in this step.
LeavesLoop(c) == ws[c].pc = "receive" /\ ws'[c].pc \notin {"receive", "send_pong"}

C17_Inv ==
    \A d \in DOMAIN ws_clients : \A c \in Conns :
        c \notin ws_clients[d] => Discard(d, c) = ws_clients
C17_Step ==
    /\ \A c \in Conns :
          /\ LeavesLoop(c) => ws'[c].pc = "done"
          /\ (Unsubscribes(c) /\ c \notin SetOfClients(Val(ws[c].deviceId))) =>
                ws_clients' = ws_clients
    /\ \A r \in Reqs :
          (Drops(r) /\ req[r].to_drop \cap SetOfClients(req[r].device_id) = {}) =>
                ws_clients' = ws_clients

\* C17: removing a connection that is no longer in its device's set raises no
\* error and changes nothing: discard of an absent connection gives the same
\* registry; a ws_handler whose connection a ws_broadcast call already dropped
\* still ends normally and leaves ws_clients as it was; and a ws_broadcast
\* call whose marked connections were already unsubscribed leaves ws_clients
\* as it was.
C17_UnsubscribeIdempotent == [](C17_Inv) /\ [][C17_Step]_vars
C17_Witness ==
    \E r \in Reqs : \E c \in Conns :
        /\ req[r].pc \in {"broadcast_done", "test_sent", "responded"}
        /\ c \in req[r].to_drop /\ c \in req[r].attempted
        /\ ws[c].pc = "done"
        /\ c \notin SetOfClients(Val(ws[c].deviceId))

\* The number of frames of request r in an inbox.
FrameCount(inbox, r) == Cardinality({j \in 1..Len(inbox) : inbox[j].from = r})
\* The ws_broadcast call of request r starts a send to connection c.
Sends(r, c) == req[r].pc = "for_ws" /\ req'[r].pc = "send_str" /\ req'[r].send_to = c

C18_Inv ==
    \A r \in Reqs :
        /\ req[r].attempted \subseteq req[r].snapshot
        /\ \A c \in Conns : FrameCount(ws[c].inbox, r) <= Len(req[r].emitted)
C18_Step ==
    \A r \in Reqs : \A c \in Conns :
        /\ Sends(r, c) =>
              /\ c \in req[r].snapshot /\ c \notin req[r].attempted
              /\ ws'[c].inbox = Append(ws[c].inbox, Frame(req[r].msg, r))
        /\ FrameCount(ws'[c].inbox, r) # FrameCount(ws[c].inbox, r) => Sends(r, c)

\* C18: one ws_broadcast call sends its message at most once to each
\* connection: each send goes to a connection of the call's snapshot that the
\* call has not sent to before, a frame of a request is written only by such a
\* send, and a connection never holds more frames of a request than the
\* request has made calls; this holds while connections subscribe, close and
\* unsubscribe during the suspension of a send.
C18_AtMostOncePerCall == [](C18_Inv) /\ [][C18_Step]_vars
C18_Witness ==
    \E r \in Reqs :
        /\ req[r].pc = "broadcast_done"
        /\ req[r].attempted = {"w1", "w2"}
        /\ FrameCount(ws["w1"].inbox, r) = 1 /\ FrameCount(ws["w2"].inbox, r) = 1
        /\ ws["w1"].pc = "done"

\* The fixed order of the events of one request (spec 4.4 step 3).
SectionOrder == <<"coap", "heartbeat", "activity", "reboot", "temperature", "location">>
Position(t) == CHOOSE k \in 1..Len(SectionOrder) : SectionOrder[k] = t
\* The event types of the frames of request r in an inbox, in inbox order.
TypesOf(inbox, r) ==
    LET frames == SelectSeq(inbox, LAMBDA f : f.from = r)
    IN  [j \in 1..Len(frames) |-> frames[j].type]
\* s is a run of consecutive elements of t.
IsRunOf(s, t) ==
    \E a \in 0..Len(t) : a + Len(s) <= Len(t) /\ s = SubSeq(t, a + 1, a + Len(s))

C19_Inv ==
    \A c \in Conns : \A r \in Uplinked :
        LET t == TypesOf(ws[c].inbox, r)
        IN  /\ \A i \in 1..Len(t) : \A j \in 1..Len(t) :
                  i < j => Position(t[i]) < Position(t[j])
            /\ IsRunOf(t, req[r].emitted)
C19_Step ==
    \A c \in Conns :
        /\ Len(ws'[c].inbox) \in {Len(ws[c].inbox), Len(ws[c].inbox) + 1}
        /\ SubSeq(ws'[c].inbox, 1, Len(ws[c].inbox)) = ws[c].inbox

C20_GuardAtCallSite ==
    \A r \in Uplinked :
        req[r].pc = "store" => ~DevidMissing(store[r].data)

\* The ws_handler task of connection c has ended: it returned (a 401 or 400
\* answer, or the WebSocketResponse after its finally) or an exception left it.
HandlerEnded(c) == ws[c].pc \in {"401", "400", "done", "raised"}

\* C21: once the ws_handler task of a connection has ended, however it ended
\* (the client left, a transport error, a failed send, the system/connected
\* send included), the connection is in the set of no device.
C21_NoEntryAfterHandler ==
    \A c \in Conns : HandlerEnded(c) => RegisteredUnder(ws_clients, c) = {}

\* When a ws_broadcast call has gone through its snapshot: a connection of the
\* snapshot it did not send to (it found it closed) is out of the device's set.
C22_Inv ==
    \A r \in Reqs :
        req[r].pc = "broadcast_done" =>
            \A c \in req[r].snapshot \ req[r].attempted :
                ws[c].closed /\ c \notin SetOfClients(req[r].device_id)
\* No send is started on a closed connection, and nothing is written to it.
C22_Step ==
    \A r \in Reqs : \A c \in Conns :
        /\ Sends(r, c) => ~ws[c].closed
        /\ (ws[c].closed /\ req[r].pc = "for_ws") =>
              FrameCount(ws'[c].inbox, r) = FrameCount(ws[c].inbox, r)

\* C22: a connection that was closed when a ws_broadcast call for its device
\* reached it is sent nothing by that call and is out of the device's set when
\* the call has gone through its snapshot (if its own handler has not removed
\* it before); so a connection closed before a broadcast to its device starts
\* does not survive that broadcast in the registry.
C22_ClosedIsDropped == [](C22_Inv) /\ [][C22_Step]_vars
C22_Witness ==
    \E r \in Reqs :
        /\ req[r].pc = "broadcast_done"
        /\ req[r].snapshot = {"w1", "w2"}
        /\ req[r].attempted = {"w2"}
        /\ req[r].to_drop = {"w1"}
        /\ ws["w1"].pc = "receive" /\ ws["w1"].closed
        /\ ws_clients["D1"] = {"w2"}

\* The pong frames in an inbox.
Pongs(inbox) == {j \in 1..Len(inbox) : inbox[j].type = "pong"}
\* The inbound messages that are not a ping: a JSON text of another type, a
\* text that is not JSON, a binary message.
NotPing == {"json", "nonjson", "binary"}

C23_Inv ==
    \A c \in Conns :
        /\ Cardinality(Pongs(ws[c].inbox)) <= ws[c].msgs
        /\ \A j \in Pongs(ws[c].inbox) : ws[c].inbox[j].from = c
C23_Step ==
    \A c \in Conns :
        /\ WsReceive(c, "ping") =>
              /\ ws'[c].inbox = Append(ws[c].inbox, Frame("pong", c))
              /\ \A o \in Conns \ {c} : ws'[o] = ws[o]
              /\ ws_clients' = ws_clients
        /\ \A m \in NotPing :
              WsReceive(c, m) =>
                  /\ ws'[c].inbox = ws[c].inbox
                  /\ \A o \in Conns \ {c} : ws'[o] = ws[o]
                  /\ ws_clients' = ws_clients
        /\ Pongs(ws'[c].inbox) # Pongs(ws[c].inbox) => WsReceive(c, "ping")

\* C23: an inbound ping on a connection in its receive loop writes exactly one
\* pong to that connection and nothing to any other; an inbound message that
\* is not a ping or not JSON writes nothing; neither changes ws_clients; and a
\* pong is written only in answer to a ping of the same connection.
C23_PingPong == [](C23_Inv) /\ [][C23_Step]_vars
C23_Witness ==
    /\ ws["w1"].pc = "receive" /\ ws["w1"].msgs = 1
    /\ Cardinality(Pongs(ws["w1"].inbox)) = 1
    /\ "w2" \in SetOfClients("D1")
    /\ Pongs(ws["w2"].inbox) = {}

\* One uplink and one WebSocket client, under fair scheduling: the event loop
\* runs every task that is ready, and every send and backend call that a
\* request waits for returns.
LivePayloads ==
    {Malformed, [ok |-> TRUE, heartbeat |-> None, location |-> None, uplink_count |-> 42]}
    \cup {[ok |-> TRUE, heartbeat |-> Some(h), location |-> l, uplink_count |-> 42] :
            h \in SampleHeartbeats("D1"),
            l \in {None, Some([wifi |-> <<AccessPoint>>])}}
InitLive ==
    InitWith({UplinkReq(p) : p \in LivePayloads}, {UnusedReq}, {NoData},
             {NewWs("new", Some("D1"), TRUE, MaxMsgs)}, {UnusedWs})
SpecLive == InitLive /\ [][Next]_vars /\ \A r \in Reqs : WF_vars(RequestStep(r))

\* The moves between orchestrator states (spec 4.4).
Moves ==
    {<<"RECEIVED", "DECODED">>, <<"RECEIVED", "FAILED">>,
     <<"DECODED", "FANNED_OUT">>, <<"FANNED_OUT", "RESPONDED">>}
C24_Step ==
    \A r \in Uplinked : State(r)' = State(r) \/ <<State(r), State(r)'>> \in Moves

\* C24: under fair scheduling, with every send and backend call returning,
\* every request reaches RESPONDED or FAILED; its state changes only along
\* RECEIVED, DECODED, FANNED_OUT, RESPONDED or from RECEIVED to FAILED, so it
\* reaches one terminal state only and never leaves it.
C24_Terminates ==
    /\ \A r \in Reqs :
          <>(req[r].kind = "render_post" => State(r) \in {"RESPONDED", "FAILED"})
    /\ [][C24_Step]_vars
C24_Witness ==
    \E r \in Uplinked :
        /\ State(r) = "RESPONDED"
        /\ Len(req[r].emitted) = 5
        /\ FrameCount(ws["w1"].inbox, r) = 5
        /\ store[r].total_operations = 4

\* --------------------------------------------------------------------- C25

\* The operations of request r the backend has been sent.
IssuedOps(r) == {store[r].issued[j] : j \in 1..Len(store[r].issued)}

\* C25: the response of an uplink is returned only after every persistence
\* operation dispatched for it has completed: once the request has a response
\* none of its operations is in flight, every one it issued has an outcome,
\* and the response is the Downlink whatever those outcomes are.
C25_PersistAwaited ==
    \A r \in Uplinked :
        /\ req[r].response # NoResponse => InFlight(r) = {}
        /\ State(r) = "RESPONDED" =>
              /\ \A n \in IssuedOps(r) : Completed(store[r], n)
              /\ store[r].exit = "returned"
              /\ req[r].response = Downlink
C25_Witness ==
    \E r \in Uplinked :
        /\ State(r) = "RESPONDED"
        /\ Len(store[r].issued) >= 3
        /\ store[r].success_count = 0
        /\ store[r].total_operations = Len(store[r].issued)
        /\ req[r].response = Downlink

\* --------------------------------------------------------------------- C26

\* The operations of a call that ended without success.
FailedOps(r) == {n \in DOMAIN store[r].outcome : store[r].outcome[n] \in {"False", "raise"}}

\* No operation is sent a second time, and one that has ended keeps its
\* outcome.
C26_Inv ==
    \A r \in Stored :
        /\ \A n \in DOMAIN store[r].outcome : Count(store[r].issued, n) <= 1
        /\ (store[r].exit = "returned" /\ FailedOps(r) # {}) =>
              \A j \in 1..Len(DependentNames(store[r].data)) :
                  LET n == DependentNames(store[r].data)[j]
                  IN Count(store[r].issued, n) = 1 /\ Completed(store[r], n)
C26_Step ==
    \A r \in Stored :
        /\ Len(store[r].issued') >= Len(store[r].issued)
        /\ SubSeq(store[r].issued', 1, Len(store[r].issued)) = store[r].issued
        /\ \A n \in DOMAIN store[r].outcome :
              Completed(store[r], n) => store[r].outcome'[n] = store[r].outcome[n]

\* C26: within one call every derived operation is attempted exactly once,
\* whatever the outcome of the others: none is sent twice, one that ended is
\* never tried again, and when the call returns after any operation failed (the
\* config upsert included) every derived dependent operation was sent once and
\* has ended.
C26_OnceEach == [](C26_Inv) /\ [][C26_Step]_vars
C26_Witness ==
    \E r \in Stored :
        /\ store[r].exit = "returned"
        /\ store[r].outcome["device_config"] = "False"
        /\ store[r].issued = <<"device_config", "activity", "reboot", "temperature", "wifi">>
        /\ store[r].outcome["activity"] = "True"
        /\ store[r].outcome["reboot"] = "False"
        /\ store[r].outcome["temperature"] = "True"
        /\ store[r].outcome["wifi"] = "True"

\* --------------------------------------------------------------------- C27

\* The frames of an inbox that a ws_broadcast call wrote.
BroadcastFrames(c) == {j \in 1..Len(ws[c].inbox) : ws[c].inbox[j].from \in Reqs}

C27_Inv ==
    \A c \in Conns :
        /\ ws[c].inbox # <<>> => ws[c].inbox[1] = Frame("connected", c)
        /\ \A j \in BroadcastFrames(c) : \E i \in ConnectedFrames(c) : i < j
C27_Step ==
    \A r \in Reqs, c \in Conns :
        Sends(r, c) => ws[c].inbox # <<>> /\ ws[c].inbox[1].type = "connected"

\* C27: the system/connected message is the first frame a connection
\* receives: every frame a broadcast writes to a connection comes after that
\* connection's system/connected frame, also when the broadcast runs while
\* ws_handler is suspended in the send of line 96, after it registered the
\* connection.
C27_ConnectedFirst == [](C27_Inv) /\ [][C27_Step]_vars
C27_Witness ==
    \E c \in Conns :
        /\ ws[c].pc = "send_connected"
        /\ Len(ws[c].inbox) >= 2
        /\ ws[c].inbox[1].type = "connected"
        /\ ws[c].inbox[2].from \in Reqs

\* --------------------------------------------------------------------- C28

\* The connections that asked for device d (line 84).
AskedFor(d) == {c \in Conns : ws[c].deviceId = Some(d)}

C28_Inv ==
    /\ \A c \in Conns : Cardinality(RegisteredUnder(ws_clients, c)) <= 1
    /\ \A r \in Reqs :
          /\ req[r].snapshot \subseteq AskedFor(req[r].device_id)
          /\ \A c \in Conns : FrameCount(ws[c].inbox, r) > 0 => c \in AskedFor(req[r].device_id)
C28_Step ==
    \A r \in Reqs :
        /\ \A c \in Conns : Sends(r, c) => c \in AskedFor(req[r].device_id)
        /\ BroadcastStep(r) =>
              \A d \in DOMAIN ws_clients' :
                  IF d = req[r].device_id
                  THEN SetOf(ws_clients', d) \subseteq SetOf(ws_clients, d)
                  ELSE SetOf(ws_clients', d) = SetOf(ws_clients, d)

\* C28: a broadcast for device d sends only to connections registered under
\* d and removes connections only from d's set: every other device's set is
\* the same after each of its steps, and in every state a connection is in at
\* most one device's set.
C28_Confined == [](C28_Inv) /\ [][C28_Step]_vars
C28_Witness ==
    \E r \in Reqs :
        /\ req[r].pc = "broadcast_done"
        /\ req[r].device_id = "D1"
        /\ req[r].to_drop = {"w1"} /\ req[r].attempted = {"w1"}
        /\ SetOf(ws_clients, "D1") = {}
        /\ SetOf(ws_clients, "D2") = {"w2"}
        /\ ws["w2"].closed
        /\ BroadcastFrames("w2") = {}

\* --------------------------------------------------------------------- C29

\* Request r waits for a backend response or for a send to a subscriber.
Suspended(r) == req[r].pc \in {"await_config", "gather", "send_str"}
Finished(r) == State(r) \in {"RESPONDED", "FAILED"}
\* The first frame of request r in the inbox of connection c (0 when none).
FirstFrame(c, r) ==
    IF FramesFrom(c, r) = {} THEN 0
    ELSE CHOOSE j \in FramesFrom(c, r) : \A i \in FramesFrom(c, r) : j <= i

\* C29: requests do not block each other: a request that is suspended in a
\* backend call or in a send to a subscriber does not hold the event loop, and
\* while it is suspended every other unfinished request, of the same or of
\* another device, has a step it can take whenever the loop is free or its own.
C29_NoBlocking ==
    \A r \in Uplinked :
        Suspended(r) =>
            /\ loop # r
            /\ \A q \in Uplinked \ {r} :
                  (~Finished(q) /\ loop \in {"idle", q}) => ENABLED RequestStep(q)
\* The second request overtakes the first: r1 reached its subscriber first and
\* still waits for the backend when r2 is RESPONDED.
C29_Witness ==
    /\ req["r1"].pc = "await_config"
    /\ State("r2") = "RESPONDED"
    /\ req["r2"].device_id = "D1"
    /\ FirstFrame("w1", "r1") > 0
    /\ FirstFrame("w1", "r1") < FirstFrame("w1", "r2")
\* The other order from the same start: r1 is RESPONDED and r2, which
\* broadcast after it, still waits.
C29_FirstFinishesFirst ==
    /\ State("r1") = "RESPONDED"
    /\ Suspended("r2")
    /\ FirstFrame("w1", "r1") > 0
    /\ FirstFrame("w1", "r1") < FirstFrame("w1", "r2")
\* A request of another device is RESPONDED while r1 is suspended in a send.
C29_OtherDevice ==
    /\ req["r1"].pc = "send_str"
    /\ State("r2") = "RESPONDED"
    /\ req["r2"].device_id = "D2"

\* --------------------------------------------------------------------- C30

\* Every event render_post has to broadcast for request r has been handed to
\* ws_broadcast.
EmittedAll(r) ==
    TruthyStr(Values(r).dev_id) =>
        \A k \in 1..Len(EventTypes) :
            Emits(Values(r), k) => Has(req[r].emitted, EventTypes[k])

C30_Inv ==
    \A r \in Uplinked :
        store[r].issued # <<>> =>
            /\ EmissionDone(r)
            /\ EmittedAll(r)
            /\ req[r].snapshot = req[r].visited
C30_Step ==
    \A r \in Uplinked :
        /\ \A c \in Conns : Sends(r, c) => store[r].issued = <<>>
        /\ store[r].issued # <<>> =>
              /\ req'[r].emitted = req[r].emitted
              /\ \A c \in Conns : FrameCount(ws'[c].inbox, r) = FrameCount(ws[c].inbox, r)

\* C30: within one request broadcast and persistence are sequential: when the
\* first persistence operation is dispatched every event of the request has
\* been broadcast and every subscriber of the last snapshot visited, and from
\* then on the request starts no send and writes no frame.
C30_BroadcastThenPersist == [](C30_Inv) /\ [][C30_Step]_vars
C30_Witness ==
    \E r \in Uplinked :
        /\ req[r].pc = "await_config"
        /\ store[r].issued = <<"device_config">>
        /\ Len(req[r].emitted) >= 3
        /\ FrameCount(ws["w1"].inbox, r) = Len(req[r].emitted)

\* --------------------------------------------------------------------- C31

\* C31: the device id comes from the config section only, so a request that
\* has emitted an event or issued a persistence operation carries a config
\* section with a non-empty dev_id; its first event is coap and its second is
\* heartbeat, which it has emitted by the time its broadcasts are over; the
\* first operation it issues is the device_config upsert, and that upsert has
\* completed when any other operation is issued.
C31_ConfigLeads ==
    \A r \in Uplinked :
        /\ (req[r].emitted # <<>> \/ store[r].issued # <<>>) =>
              /\ WireHas(req[r].payload, "config")
              /\ WireDeviceId(req[r].payload) # ""
              /\ Values(r).dev_id = Some(WireDeviceId(req[r].payload))
        /\ req[r].emitted # <<>> =>
              /\ req[r].emitted[1] = "coap"
              /\ Len(req[r].emitted) >= 2 => req[r].emitted[2] = "heartbeat"
              /\ (EmissionDone(r) \/ req[r].k > 2) => Len(req[r].emitted) >= 2
        /\ store[r].issued # <<>> =>
              /\ store[r].issued[1] = "device_config"
              /\ Len(req[r].emitted) >= 2
              /\ Len(store[r].issued) >= 2 => Completed(store[r], "device_config")
C31_Witness ==
    \E r \in Uplinked :
        /\ WireDeviceId(req[r].payload) = "D1"
        /\ Len(req[r].emitted) >= 3 /\ Len(store[r].issued) >= 2
        /\ Val(req[r].payload.heartbeat).config = Some(ZeroConfig("D1"))
        /\ Val(req[r].payload.heartbeat).activity = Some(FullActivity)
        /\ State(r) = "RESPONDED"
        /\ SubSeq(req[r].emitted, 1, 3) = <<"coap", "heartbeat", "activity">>
        /\ SubSeq(store[r].issued, 1, 2) = <<"device_config", "activity">>
        /\ store[r].outcome["device_config"] = "False"
====
